---- MODULE Spec2Model ----
(***************************************************************************)
(* Model of the Home component of frontend/app/page.tsx: the four          *)
(* persisted React state fields (question, answer, claim, factResult), the *)
(* two request phases (loading/status, factLoading/factError), the         *)
(* localStorage slot, the hydrate and persist effects and the two          *)
(* asynchronous handlers handleQuery and handleFactCheck.                  *)
(*                                                                         *)
(* JavaScript values are tagged records.  A JavaScript string is a         *)
(* sequence of one-character strings, so that trim, concatenation,         *)
(* JSON.stringify and JSON.parse are computed character by character.      *)
(***************************************************************************)
EXTENDS Naturals, Sequences, FiniteSets

(***************************************************************************)
(* JavaScript values                                                       *)
(***************************************************************************)
Undef == [t |-> "undefined"]

Null == [t |-> "null"]

Str(s) == [t |-> "string", v |-> s]

Num(n) == [t |-> "number", v |-> n]

Bool(b) == [t |-> "boolean", v |-> b]

\* an array: the sequence of its elements
Arr(s) == [t |-> "array", v |-> s]

\* an object: the sequence of its own properties [k |-> key, v |-> value], in
\* insertion order
Obj(ps) == [t |-> "object", v |-> ps]

Prop(key, val) == [k |-> key, v |-> val]

EmptyStr == Str(<< >>)

IsString(x) == x.t = "string"

\* ToBoolean: undefined, null, "", 0 and false are falsy
Truthy(x) ==
    CASE x.t = "undefined" -> FALSE
      [] x.t = "null" -> FALSE
      [] x.t = "string" -> x.v # << >>
      [] x.t = "number" -> x.v # 0
      [] x.t = "boolean" -> x.v
      [] OTHER -> TRUE

\* a || b
Or(a, b) == IF Truthy(a) THEN a ELSE b

\* a ?? b
Nullish(a, b) == IF a.t \in {"undefined", "null"} THEN b ELSE a

\* reading a property of undefined or null throws TypeError
ReadThrows(x) == x.t \in {"undefined", "null"}

RECURSIVE Lookup(_, _, _)
\* the value of the last property of ps[1..n] whose key is key
Lookup(ps, n, key) ==
    IF n = 0 THEN Undef
    ELSE IF ps[n].k = key THEN ps[n].v
    ELSE Lookup(ps, n - 1, key)

LengthKey == <<"l", "e", "n", "g", "t", "h">>

\* x.key for a value x that is neither undefined nor null
Get(x, key) ==
    CASE x.t = "object" -> Lookup(x.v, Len(x.v), key)
      [] x.t \in {"array", "string"} ->
            IF key = LengthKey THEN Num(Len(x.v)) ELSE Undef
      [] OTHER -> Undef

(***************************************************************************)
(* Strings                                                                 *)
(***************************************************************************)
IsSpace(c) == c \in {" ", "\t", "\n", "\r"}

RECURSIVE TrimStart(_)
TrimStart(s) ==
    IF s # << >> /\ IsSpace(Head(s)) THEN TrimStart(Tail(s)) ELSE s

RECURSIVE TrimEnd(_)
TrimEnd(s) ==
    IF s # << >> /\ IsSpace(s[Len(s)]) THEN TrimEnd(SubSeq(s, 1, Len(s) - 1))
    ELSE s

\* String.prototype.trim
\* a blank test that does not trim
NoTrim(s) == s

Trim(s) == TrimEnd(TrimStart(s))

Digits == <<"0", "1", "2", "3", "4", "5", "6", "7", "8", "9">>

IsDigit(c) == \E d \in 1..10 : Digits[d] = c

DigitVal(c) == (CHOOSE d \in 1..10 : Digits[d] = c) - 1

RECURSIVE NatToStr(_)
NatToStr(n) ==
    IF n < 10 THEN <<Digits[n + 1]>>
    ELSE NatToStr(n \div 10) \o <<Digits[(n % 10) + 1]>>

RECURSIVE ToStr(_)
RECURSIVE JoinToStr(_, _)
\* Array.prototype.join(","): undefined and null elements give the empty string
JoinToStr(s, i) ==
    IF i > Len(s) THEN << >>
    ELSE (IF i > 1 THEN <<",">> ELSE << >>)
         \o (IF s[i].t \in {"undefined", "null"} THEN << >> ELSE ToStr(s[i]))
         \o JoinToStr(s, i + 1)

\* ToString
ToStr(x) ==
    CASE x.t = "string" -> x.v
      [] x.t = "number" -> NatToStr(x.v)
      [] x.t = "boolean" ->
            IF x.v THEN <<"t", "r", "u", "e">> ELSE <<"f", "a", "l", "s", "e">>
      [] x.t = "null" -> <<"n", "u", "l", "l">>
      [] x.t = "undefined" -> <<"u", "n", "d", "e", "f", "i", "n", "e", "d">>
      [] x.t = "array" -> JoinToStr(x.v, 1)
      [] OTHER ->
            <<"[", "o", "b", "j", "e", "c", "t", " ", "O", "b", "j", "e", "c", "t", "]">>

(***************************************************************************)
(* JSON.stringify                                                          *)
(***************************************************************************)
\* the characters JSON writes escaped, and the letter after the backslash
Escaped == {"\"", "\\", "\n", "\t", "\r"}

EscapeLetter(c) ==
    CASE c = "\n" -> "n"
      [] c = "\t" -> "t"
      [] c = "\r" -> "r"
      [] OTHER -> c

\* the character an escape letter stands for
Unescape(c) ==
    CASE c = "n" -> "\n"
      [] c = "t" -> "\t"
      [] c = "r" -> "\r"
      [] OTHER -> c

\* a string literal's body written without escapes
RawChars(s) == s

RECURSIVE QuoteChars(_)
\* the characters of a string literal's body, computed by halves
QuoteChars(s) ==
    IF \A i \in 1..Len(s) : s[i] \notin Escaped THEN s
    ELSE IF Len(s) = 1 THEN <<"\\", EscapeLetter(s[1])>>
    ELSE QuoteChars(SubSeq(s, 1, Len(s) \div 2))
         \o QuoteChars(SubSeq(s, (Len(s) \div 2) + 1, Len(s)))

Quote(s) == <<"\"">> \o QuoteChars(s) \o <<"\"">>

RECURSIVE Serialize(_)
RECURSIVE SerializeProps(_, _, _)
RECURSIVE SerializeElems(_, _)
\* the members of an object: a property whose value is undefined is left out
SerializeProps(ps, i, first) ==
    IF i > Len(ps) THEN << >>
    ELSE IF ps[i].v.t = "undefined" THEN SerializeProps(ps, i + 1, first)
    ELSE (IF first THEN << >> ELSE <<",">>)
         \o Quote(ps[i].k) \o <<":">> \o Serialize(ps[i].v)
         \o SerializeProps(ps, i + 1, FALSE)

\* the elements of an array: an undefined element is written null
SerializeElems(s, i) ==
    IF i > Len(s) THEN << >>
    ELSE (IF i > 1 THEN <<",">> ELSE << >>)
         \o (IF s[i].t = "undefined" THEN <<"n", "u", "l", "l">> ELSE Serialize(s[i]))
         \o SerializeElems(s, i + 1)

\* the text of a value that is not undefined
Serialize(x) ==
    CASE x.t = "string" -> Quote(x.v)
      [] x.t = "object" -> <<"{">> \o SerializeProps(x.v, 1, TRUE) \o <<"}">>
      [] x.t = "array" -> <<"[">> \o SerializeElems(x.v, 1) \o <<"]">>
      [] OTHER -> ToStr(x)

\* JSON.stringify(x): a string, or undefined for undefined
JSONstringify(x) == IF x.t = "undefined" THEN Undef ELSE Str(Serialize(x))

(***************************************************************************)
(* JSON.parse                                                              *)
(* Numbers are the non-negative integers and the string escapes are those  *)
(* QuoteChars writes; a parse result is [ok, val, pos], pos being the      *)
(* index after the value.                                                  *)
(***************************************************************************)
ParseFail == [ok |-> FALSE, val |-> Undef, pos |-> 0]

ParseOk(val, pos) == [ok |-> TRUE, val |-> val, pos |-> pos]

RECURSIVE SkipWs(_, _)
SkipWs(s, i) == IF i <= Len(s) /\ IsSpace(s[i]) THEN SkipWs(s, i + 1) ELSE i

StartsWith(s, i, w) ==
    /\ i + Len(w) - 1 <= Len(s)
    /\ SubSeq(s, i, i + Len(w) - 1) = w

RECURSIVE SetProp(_, _, _, _)
\* ps with property key set to val: an existing key keeps its place
SetProp(ps, i, key, val) ==
    IF i > Len(ps) THEN Append(ps, Prop(key, val))
    ELSE IF ps[i].k = key THEN [ps EXCEPT ![i] = Prop(key, val)]
    ELSE SetProp(ps, i + 1, key, val)

\* the number of consecutive backslashes of s[i..p-1] that end at p - 1
BackslashRun(s, i, p) ==
    LET q == CHOOSE q \in (i - 1)..(p - 1) :
                 /\ (q = i - 1 \/ s[q] # "\\")
                 /\ \A r \in (q + 1)..(p - 1) : s[r] = "\\"
    IN  p - 1 - q

\* in the string literal whose body starts at i, the character at p follows
\* a backslash that escapes it
IsEscaped(s, i, p) == BackslashRun(s, i, p) % 2 = 1

\* the rest of a string literal, from the character after its opening quote:
\* it ends at the first quote that is not escaped
ParseString(s, i) ==
    LET ends == {p \in i..Len(s) : s[p] = "\"" /\ ~IsEscaped(s, i, p)}
        e == CHOOSE p \in ends : \A r \in ends : p <= r
        Introducer(p) == s[p] = "\\" /\ ~IsEscaped(s, i, p)
        kept == SelectSeq([k \in 1..(e - i) |-> i + k - 1], LAMBDA p : ~Introducer(p))
        bad == \E p \in i..(e - 1) :
                   \/ s[p] \in {"\t", "\n", "\r"}
                   \/ /\ IsEscaped(s, i, p)
                      /\ s[p] \notin {"\"", "\\", "/", "n", "t", "r"}
    IN  IF ends = {} THEN ParseFail
        ELSE IF bad THEN ParseFail
        ELSE ParseOk(Str([k \in 1..Len(kept) |->
                             IF IsEscaped(s, i, kept[k]) THEN Unescape(s[kept[k]])
                             ELSE s[kept[k]]]),
                     e + 1)

RECURSIVE ParseDigits(_, _, _)
ParseDigits(s, i, acc) ==
    IF i <= Len(s) /\ IsDigit(s[i])
    THEN ParseDigits(s, i + 1, acc * 10 + DigitVal(s[i]))
    ELSE ParseOk(Num(acc), i)

RECURSIVE ParseValue(_, _)
RECURSIVE ParseElems(_, _, _)
RECURSIVE ParseMembers(_, _, _)
\* after an element, at j: "," and more elements, or "]"
ElemsNext(s, acc, j) ==
    IF j > Len(s) THEN ParseFail
    ELSE IF s[j] = "," THEN ParseElems(s, j + 1, acc)
    ELSE IF s[j] = "]" THEN ParseOk(Arr(acc), j + 1)
    ELSE ParseFail

ElemsValue(s, acc, r) ==
    IF ~r.ok THEN ParseFail
    ELSE ElemsNext(s, Append(acc, r.val), SkipWs(s, r.pos))

\* the elements of an array after "[" or ",": a value, then "," or "]"
ParseElems(s, i, acc) == ElemsValue(s, acc, ParseValue(s, i))

\* after a member, at d: "," and more members, or "}"
MembersNext(s, acc, d) ==
    IF d > Len(s) THEN ParseFail
    ELSE IF s[d] = "," THEN ParseMembers(s, d + 1, acc)
    ELSE IF s[d] = "}" THEN ParseOk(Obj(acc), d + 1)
    ELSE ParseFail

MemberValue(s, acc, key, val) ==
    IF ~val.ok THEN ParseFail
    ELSE MembersNext(s, SetProp(acc, 1, key, val.val), SkipWs(s, val.pos))

MemberColon(s, acc, key, c) ==
    IF c <= Len(s) /\ s[c] = ":" THEN MemberValue(s, acc, key, ParseValue(s, c + 1))
    ELSE ParseFail

MemberKey(s, acc, key) ==
    IF ~key.ok THEN ParseFail
    ELSE MemberColon(s, acc, key.val.v, SkipWs(s, key.pos))

MemberStart(s, acc, j) ==
    IF j <= Len(s) /\ s[j] = "\"" THEN MemberKey(s, acc, ParseString(s, j + 1))
    ELSE ParseFail

\* the members of an object after "{" or ",": a key, ":", a value, then "," or "}"
ParseMembers(s, i, acc) == MemberStart(s, acc, SkipWs(s, i))

\* the object or array opened at j, k being the next index that is not white space
ContainerAt(s, j, k) ==
    IF s[j] = "{" THEN
        IF k <= Len(s) /\ s[k] = "}" THEN ParseOk(Obj(<< >>), k + 1)
        ELSE ParseMembers(s, j + 1, << >>)
    ELSE
        IF k <= Len(s) /\ s[k] = "]" THEN ParseOk(Arr(<< >>), k + 1)
        ELSE ParseElems(s, j + 1, << >>)

\* the value that starts at j
ValueAt(s, j) ==
    IF j > Len(s) THEN ParseFail
    ELSE IF s[j] \in {"{", "["} THEN ContainerAt(s, j, SkipWs(s, j + 1))
    ELSE IF s[j] = "\"" THEN ParseString(s, j + 1)
    ELSE IF s[j] = "0" THEN ParseOk(Num(0), j + 1)
    ELSE IF IsDigit(s[j]) THEN ParseDigits(s, j, 0)
    ELSE IF StartsWith(s, j, <<"t", "r", "u", "e">>) THEN ParseOk(Bool(TRUE), j + 4)
    ELSE IF StartsWith(s, j, <<"f", "a", "l", "s", "e">>)
    THEN ParseOk(Bool(FALSE), j + 5)
    ELSE IF StartsWith(s, j, <<"n", "u", "l", "l">>) THEN ParseOk(Null, j + 4)
    ELSE ParseFail

ParseValue(s, i) == ValueAt(s, SkipWs(s, i))

\* a parse of the whole of s: only white space may follow the value
\* a parse that stops after the first value and ignores what follows it
ParsePrefix(s, r) == r

\* the text holds one value and nothing but white space after it
ParseWhole(s, r) ==
    IF r.ok /\ SkipWs(s, r.pos) = Len(s) + 1 THEN r ELSE ParseFail

ParseText(s) == ParseWhole(s, ParseValue(s, 1))

\* JSON.parse(x): x is converted to a string; ok is FALSE where JSON.parse
\* throws SyntaxError
JSONparse(x) == ParseText(ToStr(x))

(***************************************************************************)
(* The component: constants                                                *)
(***************************************************************************)
Kquestion == <<"q", "u", "e", "s", "t", "i", "o", "n">>

Kanswer == <<"a", "n", "s", "w", "e", "r">>

Kclaim == <<"c", "l", "a", "i", "m">>

KfactResult == <<"f", "a", "c", "t", "R", "e", "s", "u", "l", "t">>

Kverdict == <<"v", "e", "r", "d", "i", "c", "t">>

Kreason == <<"r", "e", "a", "s", "o", "n">>

Kevidence == <<"e", "v", "i", "d", "e", "n", "c", "e">>

Kdetail == <<"d", "e", "t", "a", "i", "l">>

Kresult == <<"r", "e", "s", "u", "l", "t">>

\* 'No answer returned.'
NoAnswer ==
    Str(<<"N", "o", " ", "a", "n", "s", "w", "e", "r", " ",
          "r", "e", "t", "u", "r", "n", "e", "d", ".">>)

\* the prefix of the Query error message (x stands for its cross mark)
QueryPrefix ==
    <<"x", " ", "Q", "u", "e", "r", "y", " ", "f", "a", "i", "l", "e", "d", ":", " ">>

\* the prefix of the FactCheck error message (x stands for its cross mark)
FactPrefix ==
    <<"x", " ", "F", "a", "c", "t", " ", "c", "h", "e", "c", "k", " ",
      "f", "a", "i", "l", "e", "d", ":", " ">>

VSupported == Str(<<"S", "U", "P", "P", "O", "R", "T", "E", "D">>)

VRefuted == Str(<<"R", "E", "F", "U", "T", "E", "D">>)

\* the messages of the errors the platform raises: fetch rejecting, res.json()
\* or JSON.parse throwing SyntaxError, a property read of null or undefined
FetchErrorMsg ==
    <<"F", "a", "i", "l", "e", "d", " ", "t", "o", " ", "f", "e", "t", "c", "h">>

SyntaxErrorMsg ==
    <<"U", "n", "e", "x", "p", "e", "c", "t", "e", "d", " ", "t", "o", "k", "e", "n">>

TypeErrorMsg ==
    <<"C", "a", "n", "n", "o", "t", " ", "r", "e", "a", "d", " ",
      "p", "r", "o", "p", "e", "r", "t", "i", "e", "s">>

(***************************************************************************)
(* The component: state                                                    *)
(***************************************************************************)
VARIABLES
    question,     \* useState(''): the question input
    answer,       \* useState(''): the last answer
    loading,      \* useState(false): the Query busy flag
    status,       \* useState(''): the Query error slot
    claim,        \* useState(''): the claim input
    factResult,   \* useState(null): the last fact-check result
    factLoading,  \* useState(false): the FactCheck busy flag
    factError,    \* useState(null): the FactCheck error slot
    storage,      \* localStorage.getItem(STORAGE_KEY): null or a string
    phase,        \* "mounted": first render committed, effects not yet run;
                  \* "hydrating": the hydrate effect's updates are queued;
                  \* "ready"; "crashed": a render threw
    pending,      \* the updates the hydrate effect queued: << >> or <<fields>>
    qInflight,    \* the handleQuery calls suspended at await, oldest first
    fInflight,    \* the handleFactCheck calls suspended at await, oldest first
    last          \* history: the step taken last

vars == <<question, answer, loading, status, claim, factResult, factLoading,
          factError, storage, phase, pending, qInflight, fInflight, last>>

\* the PersistedState object literal of the persist effect
PersistedState(q, a, c, f) ==
    Obj(<<Prop(Kquestion, q), Prop(Kanswer, a), Prop(Kclaim, c), Prop(KfactResult, f)>>)

\* what the persist effect writes: JSON.stringify(stateToSave)
Persist(q, a, c, f) == JSONstringify(PersistedState(q, a, c, f))

\* the four setter calls of the hydrate effect, or none when reading
\* saved.question throws and the catch block swallows it
HydrateSaved(saved) ==
    IF ReadThrows(saved) THEN << >>
    ELSE <<[question |-> Or(Get(saved, Kquestion), EmptyStr),
            answer |-> Or(Get(saved, Kanswer), EmptyStr),
            claim |-> Or(Get(saved, Kclaim), EmptyStr),
            factResult |-> Or(Get(saved, KfactResult), Null)]>>

\* after JSON.parse(raw): none when it threw
HydrateParsed(p) == IF ~p.ok THEN << >> ELSE HydrateSaved(p.val)

\* the updates the hydrate effect queues on reading raw from the slot: none
\* when raw is falsy, when JSON.parse throws, or when saved.question throws
HydrateUpdates(raw) ==
    IF ~Truthy(raw) THEN << >> ELSE HydrateParsed(JSONparse(raw))

(***************************************************************************)
(* Render: where evaluating the JSX throws                                 *)
(***************************************************************************)
RECURSIVE ValidChild(_)
\* a React child: a plain object is not one, an array is one if its elements are
ValidChild(x) ==
    CASE x.t = "object" -> FALSE
      [] x.t = "array" -> \A i \in 1..Len(x.v) : ValidChild(x.v[i])
      [] OTHER -> TRUE

\* x > 0
Positive(x) ==
    CASE x.t = "number" -> x.v > 0
      [] x.t = "boolean" -> x.v
      [] x.t = "string" ->
            /\ Trim(x.v) # << >>
            /\ \A i \in 1..Len(Trim(x.v)) : IsDigit(Trim(x.v)[i])
            /\ \E i \in 1..Len(Trim(x.v)) : Trim(x.v)[i] # "0"
      [] OTHER -> FALSE

\* a badge that looks only at how the verdict begins
VerdictClassByPrefix(v) ==
    IF IsString(v) /\ StartsWith(v.v, 1, VSupported.v) THEN "positive"
    ELSE IF IsString(v) /\ StartsWith(v.v, 1, VRefuted.v) THEN "negative"
    ELSE "neutral"

\* the className of the verdict badge: green for verdict === 'SUPPORTED', red
\* for verdict === 'REFUTED', yellow otherwise
VerdictClass(v) ==
    IF v = VSupported THEN "positive"
    ELSE IF v = VRefuted THEN "negative"
    ELSE "neutral"

\* the fact-check panel: {factResult && ...}
FactPanelThrows(f) ==
    LET ev == Get(f, Kevidence)
    IN  /\ Truthy(f)
        /\ \/ ~ValidChild(Get(f, Kverdict))
           \/ ~ValidChild(Get(f, Kreason))
           \/ ReadThrows(ev)
           \/ /\ Positive(Get(ev, LengthKey))
              /\ \/ ev.t # "array"
                 \/ \E i \in 1..Len(ev.v) : ~ValidChild(ev.v[i])

\* rendering Home with these four fields throws: question.trim() and
\* claim.trim() of the buttons, {answer} and the fact-check panel
RenderThrows(q, a, c, f) ==
    \/ ~IsString(q)
    \/ ~IsString(c)
    \/ Truthy(a) /\ ~ValidChild(a)
    \/ FactPanelThrows(f)

\* disabled={!question.trim() || loading} of the "Get answer" button
QueryButtonDisabled == Trim(question.v) = << >> \/ loading

\* disabled={!claim.trim() || factLoading} of the "Fact check" button
FactButtonDisabled == Trim(claim.v) = << >> \/ factLoading

\* a persist effect whose dependencies leave out claim
CommitWithoutClaimDep(q, a, c, f) ==
    /\ question' = q
    /\ answer' = a
    /\ claim' = c
    /\ factResult' = f
    /\ IF RenderThrows(q, a, c, f)
       THEN phase' = "crashed" /\ storage' = storage
       ELSE /\ phase' = "ready"
            /\ storage' = IF <<q, a, f>> # <<question, answer, factResult>>
                          THEN Persist(q, a, c, f)
                          ELSE storage

(***************************************************************************)
(* Commit: the render after state updates, then the persist effect, which  *)
(* runs when one of its four dependencies changed.  A render that throws   *)
(* unmounts the component: no effect runs.                                 *)
(***************************************************************************)
Commit(q, a, c, f) ==
    /\ question' = q
    /\ answer' = a
    /\ claim' = c
    /\ factResult' = f
    /\ IF RenderThrows(q, a, c, f)
       THEN phase' = "crashed" /\ storage' = storage
       ELSE /\ phase' = "ready"
            /\ storage' = IF <<q, a, c, f>> # <<question, answer, claim, factResult>>
                          THEN Persist(q, a, c, f)
                          ELSE storage

(***************************************************************************)
(* The backend's responses                                                 *)
(***************************************************************************)
\* fetch rejects (network error)
Reject == [kind |-> "reject", ok |-> FALSE, body |-> << >>]

\* fetch resolves with a response: res.ok and the text of its body
Response(ok, body) == [kind |-> "response", ok |-> ok, body |-> body]

NoOutcome == [kind |-> "none", ok |-> FALSE, body |-> << >>]

\* the result of a try block
Throw(msg) == [threw |-> TRUE, message |-> msg, value |-> Undef]

Return(val) == [threw |-> FALSE, message |-> << >>, value |-> val]

\* new Error(x).message
ErrorMessage(x) == IF x.t = "undefined" THEN << >> ELSE ToStr(x)

\* a check that also throws on a body with a detail, whatever res.ok
CheckOkOrDetail(ok, data) ==
    IF ReadThrows(data) THEN (IF ok THEN Return(data) ELSE Throw(TypeErrorMsg))
    ELSE IF ok /\ ~Truthy(Get(data, Kdetail)) THEN Return(data)
    ELSE Throw(ErrorMessage(Or(Get(data, Kdetail), JSONstringify(data))))

\* a check whose message is always the serialized body
CheckOkSerializes(ok, data) ==
    IF ok THEN Return(data)
    ELSE IF ReadThrows(data) THEN Throw(TypeErrorMsg)
    ELSE Throw(ErrorMessage(JSONstringify(data)))

\* if (!res.ok) throw new Error(data.detail || JSON.stringify(data)); the data
\* when the response is ok
CheckOk(ok, data) ==
    IF ok THEN Return(data)
    ELSE IF ReadThrows(data) THEN Throw(TypeErrorMsg)
    ELSE Throw(ErrorMessage(Or(Get(data, Kdetail), JSONstringify(data))))

\* await res.json(), p being the parse of the body
ResJson(ok, p) == IF ~p.ok THEN Throw(SyntaxErrorMsg) ELSE CheckOk(ok, p.val)

\* the shared head of both try blocks: fetch, res.json(), the !res.ok throw
FetchJson(out) ==
    IF out.kind = "reject" THEN Throw(FetchErrorMsg)
    ELSE ResJson(out.ok, JSONparse(Str(out.body)))

\* a setAnswer that always shows the placeholder
QueryPlaceholder(r) ==
    IF r.threw THEN r
    ELSE IF ReadThrows(r.value) THEN Throw(TypeErrorMsg)
    ELSE Return(NoAnswer)

\* setAnswer(data.answer ?? 'No answer returned.') after the head r
QueryAnswer(r) ==
    IF r.threw THEN r
    ELSE IF ReadThrows(r.value) THEN Throw(TypeErrorMsg)
    ELSE Return(Nullish(Get(r.value, Kanswer), NoAnswer))

\* the try block of handleQuery after fetch settled with out: the value for
\* setAnswer, or the error thrown
QueryTry(out) == QueryAnswer(FetchJson(out))

\* a setFactResult that stores the decoded value as it is
FactBuiltAsParsed(parsed) ==
    IF ReadThrows(parsed) THEN Throw(TypeErrorMsg) ELSE Return(parsed)

\* the object literal of setFactResult
FactBuilt(parsed) ==
    IF ReadThrows(parsed) THEN Throw(TypeErrorMsg)
    ELSE Return(Obj(<<Prop(Kverdict, Get(parsed, Kverdict)),
                      Prop(Kreason, Get(parsed, Kreason)),
                      Prop(Kevidence, Or(Get(parsed, Kevidence), Arr(<< >>)))>>))

\* an inner decode whose failure is taken as a result of nothing
FactParsedLenient(ip) == IF ~ip.ok THEN Return(Null) ELSE FactBuilt(ip.val)

\* after JSON.parse(data.result)
FactParsed(ip) == IF ~ip.ok THEN Throw(SyntaxErrorMsg) ELSE FactBuilt(ip.val)

\* const parsed = JSON.parse(data.result) after the head r
FactData(r) ==
    IF r.threw THEN r
    ELSE IF ReadThrows(r.value) THEN Throw(TypeErrorMsg)
    ELSE FactParsed(JSONparse(Get(r.value, Kresult)))

\* the try block of handleFactCheck after fetch settled with out: the value
\* for setFactResult, or the error thrown
FactTry(out) == FactData(FetchJson(out))

(***************************************************************************)
(* Inputs: what the user types, what the backend answers, what the slot    *)
(* holds when the page is opened                                           *)
(***************************************************************************)
\* the most handler calls suspended at once, where the handlers are called
\* whatever the buttons' state
MaxInflight == 2

BlankInputs == {<< >>, <<" ", "\n">>}

QuestionInputs == BlankInputs \cup {<<" ", "q", "?">>}

ClaimInputs == BlankInputs \cup {<<"c", "\"">>}

AnswerA == Str(<<"4", "2">>)

DetailD == Str(<<"d", "o", "w", "n">>)

HtmlBody == <<"<", "h", "t", "m", "l", ">">>

BodyOf(x) == Serialize(x)

\* the outcomes of a /query request: a network error, 2xx responses whose body
\* is not JSON, is null, has no answer, has an answer, has an empty answer or
\* has a detail, and
\* non-2xx responses with a detail, without one, and with a body that is not JSON
QueryOutcomes ==
    { Reject,
      Response(TRUE, HtmlBody),
      Response(TRUE, BodyOf(Null)),
      Response(TRUE, BodyOf(Obj(<< >>))),
      Response(TRUE, BodyOf(Obj(<<Prop(Kanswer, AnswerA)>>))),
      Response(TRUE, BodyOf(Obj(<<Prop(Kanswer, EmptyStr)>>))),
      Response(TRUE, BodyOf(Obj(<<Prop(Kdetail, DetailD)>>))),
      Response(FALSE, BodyOf(Obj(<<Prop(Kdetail, DetailD)>>))),
      Response(FALSE, BodyOf(Obj(<< >>))),
      Response(FALSE, HtmlBody) }

\* QueryTry of each outcome, computed once
QueryTried == [out \in QueryOutcomes |-> QueryTry(out)]

\* a decoded result with evidence, and one without
ResultSupported ==
    Obj(<<Prop(Kverdict, VSupported), Prop(Kreason, Str(<<"r">>)),
          Prop(Kevidence, Arr(<<Str(<<"p", "2">>)>>))>>)

ResultRefuted == Obj(<<Prop(Kverdict, VRefuted), Prop(Kreason, Str(<<"n", "o">>))>>)

\* a body {result: text}
ResultBody(text) == BodyOf(Obj(<<Prop(Kresult, Str(text))>>))

\* the outcomes of a /fact_check request: a network error, 2xx responses whose
\* body is not JSON, has no result, or has a result that decodes with
\* evidence, decodes without, does not decode, or decodes to null, and
\* non-2xx responses with a detail and without one
FactOutcomes ==
    { Reject,
      Response(TRUE, HtmlBody),
      Response(TRUE, BodyOf(Obj(<< >>))),
      Response(TRUE, ResultBody(Serialize(ResultSupported))),
      Response(TRUE, ResultBody(Serialize(ResultRefuted))),
      Response(TRUE, ResultBody(<<"{", "o", "o", "p", "s">>)),
      Response(TRUE, ResultBody(Serialize(Null))),
      Response(FALSE, BodyOf(Obj(<<Prop(Kdetail, DetailD)>>))),
      Response(FALSE, BodyOf(Obj(<< >>))) }

\* FactTry of each outcome, computed once
FactTried == [out \in FactOutcomes |-> FactTry(out)]

\* the FactResult the component stores for ResultSupported
StoredSupported ==
    Obj(<<Prop(Kverdict, VSupported), Prop(Kreason, Str(<<"r">>)),
          Prop(Kevidence, Arr(<<Str(<<"p", "2">>)>>))>>)

\* slot contents that are sessions the persist effect wrote
StoredSessions ==
    { Persist(Str(<<"o", "l", "d", "?">>), Str(<<"7">>), Str(<<"w">>), StoredSupported),
      Persist(Str(<<"o", "l", "d", "?">>), EmptyStr, EmptyStr, Null) }

\* slot contents that are not valid JSON: the last is a session followed by
\* one more character
CorruptTexts ==
    { Str(<<"{", "o", "o", "p", "s">>),
      Str(<<"u", "n", "d", "e", "f">>),
      Str(Serialize(Obj(<<Prop(Kquestion, Str(<<"o", "l", "d", "?">>))>>)) \o <<"}">>) }

\* slot contents that are valid JSON of another shape
MisshapenTexts ==
    { Str(Serialize(Null)),
      Str(Serialize(Num(7))),
      Str(Serialize(Arr(<<Str(<<"a">>)>>))),
      Str(Serialize(Obj(<<Prop(Kquestion, Num(7))>>))),
      Str(Serialize(Obj(<<Prop(Kanswer, Num(7))>>))),
      Str(Serialize(Obj(<<Prop(KfactResult, Str(<<"y", "e", "s">>))>>))) }

InitialStorage == {Null, EmptyStr} \cup StoredSessions \cup CorruptTexts \cup MisshapenTexts

(***************************************************************************)
(* Init: the first render has committed with the useState defaults; no     *)
(* effect has run yet                                                      *)
(***************************************************************************)
Event(ev, before, out) == [ev |-> ev, before |-> before, out |-> out]

InitWith(slots) ==
    /\ question = EmptyStr
    /\ answer = EmptyStr
    /\ loading = FALSE
    /\ status = EmptyStr
    /\ claim = EmptyStr
    /\ factResult = Null
    /\ factLoading = FALSE
    /\ factError = Null
    /\ storage \in slots
    /\ phase = "mounted"
    /\ pending = << >>
    /\ qInflight = << >>
    /\ fInflight = << >>
    /\ last = Event("init", storage, NoOutcome)

Init == InitWith(InitialStorage)

(***************************************************************************)
(* Mount: both effects run after the first commit, in source order         *)
(***************************************************************************)
\* the two effects in the other order: the persist effect writes the fields
\* of the first render, then the hydrate effect reads the slot
MountEffectsPersistFirst ==
    /\ phase = "mounted"
    /\ pending' = HydrateUpdates(Persist(question, answer, claim, factResult))
    /\ storage' = Persist(question, answer, claim, factResult)
    /\ phase' = IF pending' = << >> THEN "ready" ELSE "hydrating"
    /\ last' = Event("mount", storage, NoOutcome)
    /\ UNCHANGED <<question, answer, loading, status, claim, factResult,
                   factLoading, factError, qInflight, fInflight>>

\* the hydrate effect reads the slot and queues its updates, then the persist
\* effect writes the fields of the first render
MountEffects ==
    /\ phase = "mounted"
    /\ pending' = HydrateUpdates(storage)
    /\ storage' = Persist(question, answer, claim, factResult)
    /\ phase' = IF pending' = << >> THEN "ready" ELSE "hydrating"
    /\ last' = Event("mount", storage, NoOutcome)
    /\ UNCHANGED <<question, answer, loading, status, claim, factResult,
                   factLoading, factError, qInflight, fInflight>>

\* the render with the queued updates applied, then the persist effect
CommitHydrate ==
    /\ phase = "hydrating"
    /\ Commit(pending[1].question, pending[1].answer, pending[1].claim,
              pending[1].factResult)
    /\ pending' = << >>
    /\ last' = Event("hydrate", last.before, NoOutcome)
    /\ UNCHANGED <<loading, status, factLoading, factError, qInflight, fInflight>>

(***************************************************************************)
(* The inputs                                                              *)
(***************************************************************************)
\* onChange of the question textarea (disabled while loading)
TypeQuestion(s) ==
    /\ phase = "ready"
    /\ ~loading
    /\ Commit(Str(s), answer, claim, factResult)
    /\ last' = Event("type", Undef, NoOutcome)
    /\ UNCHANGED <<loading, status, factLoading, factError, pending, qInflight,
                   fInflight>>

\* handleClaimChange (the claim textarea is disabled while factLoading)
handleClaimChange(s) ==
    /\ phase = "ready"
    /\ ~factLoading
    /\ Commit(question, answer, Str(s), factResult)
    /\ last' = Event("type", Undef, NoOutcome)
    /\ UNCHANGED <<loading, status, factLoading, factError, pending, qInflight,
                   fInflight>>

\* s without its i-th element
RemoveAt(s, i) == SubSeq(s, 1, i - 1) \o SubSeq(s, i + 1, Len(s))

(***************************************************************************)
(* handleQuery                                                             *)
(***************************************************************************)
\* a suspended call, with (history) the result field as it was when the call
\* was made
Call(before) == [before |-> before]

\* a handleQuery that leaves the earlier error in place when it starts
handleQueryKeepsStatus ==
    IF Trim(question.v) = << >>
    THEN /\ last' = Event("qNoop", answer, NoOutcome)
         /\ UNCHANGED <<question, answer, loading, status, claim, factResult,
                        factLoading, factError, storage, phase, pending,
                        qInflight, fInflight>>
    ELSE /\ loading' = TRUE
         /\ Commit(question, EmptyStr, claim, factResult)
         /\ qInflight' = Append(qInflight, Call(answer))
         /\ last' = Event("qStart", answer, NoOutcome)
         /\ UNCHANGED <<status, factLoading, factError, pending, fInflight>>

\* handleQuery up to its await: the early return on a blank question, else
\* setLoading(true), setAnswer(''), setStatus('') and the fetch
handleQuery ==
    IF Trim(question.v) = << >>
    THEN /\ last' = Event("qNoop", answer, NoOutcome)
         /\ UNCHANGED <<question, answer, loading, status, claim, factResult,
                        factLoading, factError, storage, phase, pending,
                        qInflight, fInflight>>
    ELSE /\ loading' = TRUE
         /\ status' = EmptyStr
         /\ Commit(question, EmptyStr, claim, factResult)
         /\ qInflight' = Append(qInflight, Call(answer))
         /\ last' = Event("qStart", answer, NoOutcome)
         /\ UNCHANGED <<factLoading, factError, pending, fInflight>>

\* a catch block that also shows the placeholder as the answer
QuerySettledWritesAnswer(i, out, r) ==
    /\ status' = IF r.threw THEN Str(QueryPrefix \o r.message) ELSE status
    /\ Commit(question, IF r.threw THEN NoAnswer ELSE r.value, claim, factResult)
    /\ loading' = FALSE
    /\ qInflight' = RemoveAt(qInflight, i)
    /\ last' = Event(IF r.threw THEN "qFail" ELSE "qOk", qInflight[i].before, out)
    /\ UNCHANGED <<factLoading, factError, pending, fInflight>>

\* setLoading(false) at the end of the try block instead of after the catch
QuerySettledResetsInTry(i, out, r) ==
    /\ status' = IF r.threw THEN Str(QueryPrefix \o r.message) ELSE status
    /\ Commit(question, IF r.threw THEN answer ELSE r.value, claim, factResult)
    /\ loading' = IF r.threw THEN loading ELSE FALSE
    /\ qInflight' = RemoveAt(qInflight, i)
    /\ last' = Event(IF r.threw THEN "qFail" ELSE "qOk", qInflight[i].before, out)
    /\ UNCHANGED <<factLoading, factError, pending, fInflight>>

\* a settlement that writes the answer only for the call started last
QuerySettledLatestOnly(i, out, r) ==
    /\ status' = IF r.threw THEN Str(QueryPrefix \o r.message) ELSE status
    /\ Commit(question, IF r.threw \/ i < Len(qInflight) THEN answer ELSE r.value,
              claim, factResult)
    /\ loading' = FALSE
    /\ qInflight' = RemoveAt(qInflight, i)
    /\ last' = Event(IF r.threw THEN "qFail" ELSE "qOk", qInflight[i].before, out)
    /\ UNCHANGED <<factLoading, factError, pending, fInflight>>

\* a settlement that clears the busy flag only when no other call is suspended
QuerySettledCountsCalls(i, out, r) ==
    /\ status' = IF r.threw THEN Str(QueryPrefix \o r.message) ELSE status
    /\ Commit(question, IF r.threw THEN answer ELSE r.value, claim, factResult)
    /\ loading' = (Len(qInflight) > 1)
    /\ qInflight' = RemoveAt(qInflight, i)
    /\ last' = Event(IF r.threw THEN "qFail" ELSE "qOk", qInflight[i].before, out)
    /\ UNCHANGED <<factLoading, factError, pending, fInflight>>

\* the rest of the i-th suspended handleQuery call, r being the result of its
\* try block: setAnswer or the catch block's setStatus, then setLoading(false)
QuerySettled(i, out, r) ==
    /\ status' = IF r.threw THEN Str(QueryPrefix \o r.message) ELSE status
    /\ Commit(question, IF r.threw THEN answer ELSE r.value, claim, factResult)
    /\ loading' = FALSE
    /\ qInflight' = RemoveAt(qInflight, i)
    /\ last' = Event(IF r.threw THEN "qFail" ELSE "qOk", qInflight[i].before, out)
    /\ UNCHANGED <<factLoading, factError, pending, fInflight>>

\* the fetch of the i-th suspended handleQuery call settles with out
QuerySettle(i, out) ==
    /\ phase = "ready"
    /\ i \in 1..Len(qInflight)
    /\ QuerySettled(i, out, QueryTried[out])

(***************************************************************************)
(* handleFactCheck                                                         *)
(***************************************************************************)
\* a handleFactCheck that clears the error slot of handleQuery as well
handleFactCheckClearsStatus ==
    IF Trim(claim.v) = << >>
    THEN /\ last' = Event("fNoop", factResult, NoOutcome)
         /\ UNCHANGED <<question, answer, loading, status, claim, factResult,
                        factLoading, factError, storage, phase, pending,
                        qInflight, fInflight>>
    ELSE /\ factLoading' = TRUE
         /\ factError' = Null
         /\ status' = EmptyStr
         /\ Commit(question, answer, claim, Null)
         /\ fInflight' = Append(fInflight, Call(factResult))
         /\ last' = Event("fStart", factResult, NoOutcome)
         /\ UNCHANGED <<loading, pending, qInflight>>

\* handleFactCheck up to its await: the early return on a blank claim, else
\* setFactLoading(true), setFactError(null), setFactResult(null) and the fetch
handleFactCheck ==
    IF Trim(claim.v) = << >>
    THEN /\ last' = Event("fNoop", factResult, NoOutcome)
         /\ UNCHANGED <<question, answer, loading, status, claim, factResult,
                        factLoading, factError, storage, phase, pending,
                        qInflight, fInflight>>
    ELSE /\ factLoading' = TRUE
         /\ factError' = Null
         /\ Commit(question, answer, claim, Null)
         /\ fInflight' = Append(fInflight, Call(factResult))
         /\ last' = Event("fStart", factResult, NoOutcome)
         /\ UNCHANGED <<loading, status, pending, qInflight>>

\* a catch block that puts back the result the call started from
FactSettledRestores(i, out, r) ==
    /\ factError' = IF r.threw THEN Str(FactPrefix \o r.message) ELSE factError
    /\ Commit(question, answer, claim,
              IF r.threw THEN fInflight[i].before ELSE r.value)
    /\ factLoading' = FALSE
    /\ fInflight' = RemoveAt(fInflight, i)
    /\ last' = Event(IF r.threw THEN "fFail" ELSE "fOk", fInflight[i].before, out)
    /\ UNCHANGED <<loading, status, pending, qInflight>>

\* the rest of the i-th suspended handleFactCheck call, r being the result of
\* its try block: setFactResult or the catch block's setFactError, then the
\* finally block's setFactLoading(false)
FactSettled(i, out, r) ==
    /\ factError' = IF r.threw THEN Str(FactPrefix \o r.message) ELSE factError
    /\ Commit(question, answer, claim, IF r.threw THEN factResult ELSE r.value)
    /\ factLoading' = FALSE
    /\ fInflight' = RemoveAt(fInflight, i)
    /\ last' = Event(IF r.threw THEN "fFail" ELSE "fOk", fInflight[i].before, out)
    /\ UNCHANGED <<loading, status, pending, qInflight>>

\* the fetch of the i-th suspended handleFactCheck call settles with out
FactSettle(i, out) ==
    /\ phase = "ready"
    /\ i \in 1..Len(fInflight)
    /\ FactSettled(i, out, FactTried[out])

(***************************************************************************)
(* The specifications                                                      *)
(***************************************************************************)
\* onClick of the "Get answer" button, which fires only while it is enabled
ClickQuery == phase = "ready" /\ ~QueryButtonDisabled /\ handleQuery

\* onClick of the "Fact check" button, which fires only while it is enabled
ClickFactCheck == phase = "ready" /\ ~FactButtonDisabled /\ handleFactCheck

\* some suspended call settles with one of outs
QuerySettlesWith(outs) == \E i \in 1..Len(qInflight), out \in outs : QuerySettle(i, out)

FactSettlesWith(outs) == \E i \in 1..Len(fInflight), out \in outs : FactSettle(i, out)

QuerySettles == QuerySettlesWith(QueryOutcomes)

FactSettles == FactSettlesWith(FactOutcomes)

TypesQuestion == \E s \in QuestionInputs : TypeQuestion(s)

TypesClaim == \E s \in ClaimInputs : handleClaimChange(s)

\* the page as the user drives it
Next ==
    \/ MountEffects
    \/ CommitHydrate
    \/ TypesQuestion
    \/ TypesClaim
    \/ ClickQuery
    \/ ClickFactCheck
    \/ QuerySettles
    \/ FactSettles

Spec == Init /\ [][Next]_vars

\* every request settles
FairSpec == Spec /\ WF_vars(QuerySettles) /\ WF_vars(FactSettles)

\* the handlers called whatever the buttons' state, up to MaxInflight
\* suspended calls
Inflight == Len(qInflight) + Len(fInflight)

CallQuery == phase = "ready" /\ Inflight < MaxInflight /\ handleQuery

CallFactCheck == phase = "ready" /\ Inflight < MaxInflight /\ handleFactCheck

\* a failure and two successes with different results, for each request
CallQueryOutcomes ==
    { Reject,
      Response(TRUE, BodyOf(Obj(<< >>))),
      Response(TRUE, BodyOf(Obj(<<Prop(Kanswer, AnswerA)>>))) }

CallFactOutcomes ==
    { Reject,
      Response(TRUE, ResultBody(Serialize(ResultSupported))),
      Response(TRUE, ResultBody(Serialize(ResultRefuted))) }

CallQuerySettles == QuerySettlesWith(CallQueryOutcomes)

CallFactSettles == FactSettlesWith(CallFactOutcomes)

\* a blank and a non-blank text
CallTypesQuestion == \E s \in {<<" ", "\n">>, <<" ", "q", "?">>} : TypeQuestion(s)

CallTypesClaim == \E s \in {<<" ", "\n">>, <<"c", "\"">>} : handleClaimChange(s)

NextCall ==
    \/ MountEffects
    \/ CommitHydrate
    \/ CallTypesQuestion
    \/ CallTypesClaim
    \/ CallQuery
    \/ CallFactCheck
    \/ CallQuerySettles
    \/ CallFactSettles

\* the page opened on an empty slot or on a stored session
InitCall == InitWith({Null, Persist(Str(<<"o", "l", "d", "?">>), Str(<<"7">>), Str(<<"w">>), StoredSupported)})

SpecCall == InitCall /\ [][NextCall]_vars

(***************************************************************************)
(* Properties                                                              *)
(***************************************************************************)
\* the field key of the session the slot holds
Stored(key) == Get(JSONparse(storage).val, key)

\* C1, as the specification states it: after a handleQuery call that failed,
\* answer is, in memory and in the slot, what it was before the call
C1_AnswerAsBeforeCall ==
    last.ev = "qFail" => answer = last.before /\ Stored(Kanswer) = last.before

\* C1: after a handleQuery call that failed, answer is empty in memory and in
\* the slot, whatever it was before the call: the call cleared it when it
\* started and its catch block does not write it
C1_AnswerEmptyAfterFailure ==
    last.ev = "qFail" => answer = EmptyStr /\ Stored(Kanswer) = EmptyStr

\* a call that began with an answer on the page has failed
C1_FailedWithPriorAnswer == last.ev = "qFail" /\ last.before # EmptyStr

\* C2, as the specification states it: after a handleFactCheck call that
\* failed, factResult is, in memory and in the slot, what it was before the call
C2_ResultAsBeforeCall ==
    last.ev = "fFail" => factResult = last.before /\ Stored(KfactResult) = last.before

\* C2: after a handleFactCheck call that failed, factResult is null in memory
\* and in the slot, whatever it was before the call
C2_ResultNullAfterFailure ==
    last.ev = "fFail" => factResult = Null /\ Stored(KfactResult) = Null

\* a call that began with a SUPPORTED result on the page has failed
C2_FailedWithPriorSupported ==
    /\ last.ev = "fFail"
    /\ last.before # Null
    /\ Get(last.before, Kverdict) = VSupported

\* a handleQuery call has just settled
QueryJustSettled == last.ev \in {"qOk", "qFail"}

\* the answer field of the body of a 2xx response, undefined when there is none
BodyAnswer(out) ==
    IF out.kind = "response" /\ out.ok /\ JSONparse(Str(out.body)).ok
          /\ ~ReadThrows(JSONparse(Str(out.body)).val)
    THEN Get(JSONparse(Str(out.body)).val, Kanswer)
    ELSE Undef

Blank(x) == \A i \in 1..Len(x.v) : IsSpace(x.v[i])

\* C4: a call of handleQuery with a blank question, and a call of
\* handleFactCheck with a blank claim, changes no field, no busy flag, no
\* error slot and not the storage slot, and sends no request
C4_BlankIsNoOp ==
    [][/\ (last'.ev \in {"qNoop", "qStart"} /\ Blank(question)) =>
              UNCHANGED <<question, answer, loading, status, claim, factResult,
                          factLoading, factError, storage, qInflight, fInflight>>
       /\ (last'.ev \in {"fNoop", "fStart"} /\ Blank(claim)) =>
              UNCHANGED <<question, answer, loading, status, claim, factResult,
                          factLoading, factError, storage, qInflight, fInflight>>]_vars

\* handleQuery has been called with a question of white space
C4_CalledWithWhiteSpace == last.ev = "qNoop" /\ question.v # << >>

\* C5: a busy flag that is set is eventually cleared, whatever the outcome
\* of the request
C5_BusyCleared == (loading ~> ~loading) /\ (factLoading ~> ~factLoading)

\* a failed call has cleared its busy flag
C5_ClearedAfterFailure == last.ev = "qFail" /\ ~loading

\* C6: no step of handleQuery changes claim, factResult, factLoading or
\* factError, and no step of handleFactCheck changes question, answer,
\* loading or status
C6_Independent ==
    [][/\ last'.ev \in {"qNoop", "qStart", "qOk", "qFail"} =>
              UNCHANGED <<claim, factResult, factLoading, factError, fInflight>>
       /\ last'.ev \in {"fNoop", "fStart", "fOk", "fFail"} =>
              UNCHANGED <<question, answer, loading, status, qInflight>>]_vars

\* a handleQuery call has failed while a handleFactCheck call is suspended
C6_FailedDuringFactCheck == last.ev = "qFail" /\ fInflight # << >>

\* a 2xx response whose body has a detail and no answer
OkWithDetail == Response(TRUE, BodyOf(Obj(<<Prop(Kdetail, DetailD)>>)))

C8_MisshapenIsEmpty ==
    (last.ev \in {"mount", "hydrate"} /\ last.before \in MisshapenTexts
        /\ phase # "hydrating") =>
        /\ question = EmptyStr
        /\ answer = EmptyStr
        /\ claim = EmptyStr
        /\ factResult = Null
        /\ phase = "ready"

\* C9: mounting on a slot that is absent, empty or not valid JSON queues no
\* update, leaves the four fields at their defaults and the page up
C9_CorruptIsEmpty ==
    (last.ev = "mount" /\ last.before \in {Null, EmptyStr} \cup CorruptTexts) =>
        /\ pending = << >>
        /\ phase = "ready"
        /\ question = EmptyStr
        /\ answer = EmptyStr
        /\ claim = EmptyStr
        /\ factResult = Null

\* the page has mounted on a slot that is not valid JSON
C9_MountedOnCorrupt == last.ev = "mount" /\ last.before \in CorruptTexts

\* a FactResult: verdict and reason strings, evidence an array of strings
IsFactResult(f) ==
    /\ f.t = "object"
    /\ IsString(Get(f, Kverdict))
    /\ IsString(Get(f, Kreason))
    /\ Get(f, Kevidence).t = "array"
    /\ \A i \in 1..Len(Get(f, Kevidence).v) : IsString(Get(f, Kevidence).v[i])

\* the four fields make a SessionState
IsSessionState ==
    /\ IsString(question)
    /\ IsString(answer)
    /\ IsString(claim)
    /\ factResult = Null \/ IsFactResult(factResult)

\* C10: the slot holds what the persist effect writes for the four fields,
\* and the hydrate effect reading it would restore these very four fields
C10_RoundTrip ==
    (phase \in {"ready", "hydrating"} /\ IsSessionState) =>
        /\ storage = Persist(question, answer, claim, factResult)
        /\ HydrateUpdates(storage) =
               <<[question |-> question, answer |-> answer, claim |-> claim,
                  factResult |-> factResult]>>

\* a session with an answer, a result and a claim that holds a quote
C10_SessionWithQuote ==
    /\ phase = "ready"
    /\ IsSessionState
    /\ answer # EmptyStr
    /\ factResult # Null
    /\ \E i \in 1..Len(claim.v) : claim.v[i] = "\""

\* the response is 2xx and its body is JSON other than null
BodyOk(out) ==
    /\ out.kind = "response"
    /\ out.ok
    /\ JSONparse(Str(out.body)).ok
    /\ ~ReadThrows(JSONparse(Str(out.body)).val)

\* the parse of the result field of the body of a 2xx response
BodyResult(out) ==
    IF BodyOk(out)
    THEN JSONparse(Get(JSONparse(Str(out.body)).val, Kresult))
    ELSE ParseFail

\* the result field decodes to a value other than null
Decodes(out) == BodyResult(out).ok /\ ~ReadThrows(BodyResult(out).val)

\* {verdict, reason, evidence} of the decoded result, evidence defaulted to []
DecodedResult(out) ==
    Obj(<<Prop(Kverdict, Get(BodyResult(out).val, Kverdict)),
          Prop(Kreason, Get(BodyResult(out).val, Kreason)),
          Prop(Kevidence, IF Truthy(Get(BodyResult(out).val, Kevidence))
                          THEN Get(BodyResult(out).val, Kevidence)
                          ELSE Arr(<< >>))>>)

\* the answer each /query outcome carries, computed once
AnswerSent == [out \in QueryOutcomes |-> BodyAnswer(out)]

\* the result each /fact_check outcome decodes to, undefined when it does not
ResultSent ==
    [out \in FactOutcomes |-> IF Decodes(out) THEN DecodedResult(out) ELSE Undef]

\* C11: with calls of one handler overlapping, a call that starts leaves the
\* suspended ones suspended, a call that settles leaves the others suspended,
\* and every settlement is applied whatever the order the calls started in: a
\* success writes its own value to the result field and a failure leaves the
\* result field as it is, so the field holds the value of the last success
C11_LastResponseWins ==
    [][/\ last'.ev = "qStart" => Len(qInflight') = Len(qInflight) + 1
       /\ last'.ev = "fStart" => Len(fInflight') = Len(fInflight) + 1
       /\ last'.ev \in {"qOk", "qFail"} => Len(qInflight') = Len(qInflight) - 1
       /\ last'.ev \in {"fOk", "fFail"} => Len(fInflight') = Len(fInflight) - 1
       /\ last'.ev = "qOk" => answer' = Nullish(AnswerSent[last'.out], NoAnswer)
       /\ last'.ev = "fOk" => factResult' = ResultSent[last'.out]
       /\ last'.ev = "qFail" => answer' = answer
       /\ last'.ev = "fFail" => factResult' = factResult]_vars

\* of two overlapping handleQuery calls the one started first, on a page that
\* showed an answer, has succeeded after the one started second had failed
C11_FirstStartedArrivedLast ==
    /\ last.ev = "qOk"
    /\ last.before # EmptyStr
    /\ status # EmptyStr
    /\ qInflight = << >>

\* a handleFactCheck call has just settled
FactJustSettled == last.ev \in {"fOk", "fFail"}

\* C12: when a handleFactCheck call settles with a 2xx response whose result
\* decodes to a verdict, a reason and maybe evidence, the call succeeds,
\* factResult is {verdict, reason, evidence} with evidence [] when there was
\* none, in memory and in the slot, whatever it was before, and factError is
\* null
C12_SuccessSetsResult ==
    (FactJustSettled /\ ResultSent[last.out] # Undef
        /\ IsFactResult(ResultSent[last.out])) =>
        /\ last.ev = "fOk"
        /\ factResult = ResultSent[last.out]
        /\ Stored(KfactResult) = ResultSent[last.out]
        /\ Len(factResult.v) = 3
        /\ IsFactResult(factResult)
        /\ factError = Null

\* a result without evidence has replaced an earlier result
C12_ReplacedWithoutEvidence ==
    /\ last.ev = "fOk"
    /\ last.before # Null
    /\ Get(factResult, Kverdict) = VRefuted
    /\ Get(factResult, Kevidence) = Arr(<< >>)

\* the body of each non-2xx /query response that is a JSON object, else
\* undefined
FailureBody ==
    [out \in QueryOutcomes |->
        IF out.kind = "response" /\ ~out.ok /\ JSONparse(Str(out.body)).ok
              /\ JSONparse(Str(out.body)).val.t = "object"
        THEN JSONparse(Str(out.body)).val
        ELSE Undef]

\* the body has a detail that is a non-empty string
HasDetail(body) == IsString(Get(body, Kdetail)) /\ Get(body, Kdetail).v # << >>

\* C13: when a handleQuery call settles with a non-2xx response whose body is
\* a JSON object, the call fails and status is the prefix followed by the
\* detail of the body when it has one, else by the serialized body
C13_FailureMessage ==
    (QueryJustSettled /\ FailureBody[last.out] # Undef) =>
        /\ last.ev = "qFail"
        /\ status = Str(QueryPrefix \o
                        (IF HasDetail(FailureBody[last.out])
                         THEN Get(FailureBody[last.out], Kdetail).v
                         ELSE Serialize(FailureBody[last.out])))

\* a call has failed on a non-2xx response with a detail
C13_FailedWithDetail ==
    /\ QueryJustSettled
    /\ FailureBody[last.out] # Undef
    /\ HasDetail(FailureBody[last.out])

\* the /query outcomes that are a network error, a non-2xx response or a body
\* that is not JSON
QueryFails ==
    [out \in QueryOutcomes |->
        out.kind = "reject" \/ ~out.ok \/ ~JSONparse(Str(out.body)).ok]

\* the /fact_check outcomes whose result field does not decode
InnerFails == [out \in FactOutcomes |-> BodyOk(out) /\ ~BodyResult(out).ok]

\* the /fact_check outcomes that are a network error, a non-2xx response, a
\* body that is not JSON or a result that does not decode
FactFails ==
    [out \in FactOutcomes |->
        \/ out.kind = "reject"
        \/ ~out.ok
        \/ ~JSONparse(Str(out.body)).ok
        \/ InnerFails[out]]

\* x is a string that starts with p
HasPrefix(x, p) ==
    IsString(x) /\ Len(x.v) >= Len(p) /\ SubSeq(x.v, 1, Len(p)) = p

\* C14: a network error, a non-2xx response, a body that is not JSON and a
\* result that does not decode each make the call fail, and a call that has
\* failed, for whatever reason, has put a message with the fixed prefix in
\* its error slot, cleared its busy flag and left the page up
C14_FailuresCaught ==
    /\ (QueryJustSettled /\ QueryFails[last.out]) => last.ev = "qFail"
    /\ (FactJustSettled /\ FactFails[last.out]) => last.ev = "fFail"
    /\ last.ev = "qFail" =>
           HasPrefix(status, QueryPrefix) /\ ~loading /\ phase = "ready"
    /\ last.ev = "fFail" =>
           HasPrefix(factError, FactPrefix) /\ ~factLoading /\ phase = "ready"

\* a handleFactCheck call has failed on a result that does not decode
C14_InnerDecodeFailed == FactJustSettled /\ InnerFails[last.out]

(***************************************************************************)
(* The verdict badge, on pages opened on a stored result of each verdict   *)
(***************************************************************************)
VNotEnoughInfo ==
    Str(<<"N", "O", "T", "_", "E", "N", "O", "U", "G", "H", "_", "I", "N", "F", "O">>)

\* the beginnings of s, s included
Prefixes(s) == {SubSeq(s, 1, n) : n \in 0..Len(s)}

\* verdict texts: the three the backend names, their beginnings, and each of
\* these followed by a space or by a lower-case letter
VerdictInputs ==
    {p \o e : p \in Prefixes(VSupported.v) \cup Prefixes(VRefuted.v)
                      \cup Prefixes(VNotEnoughInfo.v),
              e \in {<< >>, <<" ">>, <<"d">>}}

\* a stored session whose result has verdict v
VerdictSession(v) ==
    Persist(EmptyStr, EmptyStr, EmptyStr,
            Obj(<<Prop(Kverdict, Str(v)), Prop(Kreason, Str(<<"r">>)),
                  Prop(Kevidence, Arr(<< >>))>>))

InitVerdict == InitWith({VerdictSession(v) : v \in VerdictInputs})

NextVerdict == MountEffects \/ CommitHydrate

SpecVerdict == InitVerdict /\ [][NextVerdict]_vars

\* the badge of the result on the page
Badge == VerdictClass(Get(factResult, Kverdict))

\* C15: whenever a result with a string verdict is on the page, the page is
\* up and the badge is positive for SUPPORTED, negative for REFUTED and
\* neutral for every other verdict
C15_VerdictClassTotal ==
    (factResult # Null /\ IsString(Get(factResult, Kverdict))) =>
        /\ phase = "ready"
        /\ Badge \in {"positive", "negative", "neutral"}
        /\ Badge = "positive" <=> Get(factResult, Kverdict).v = VSupported.v
        /\ Badge = "negative" <=> Get(factResult, Kverdict).v = VRefuted.v

\* a result whose verdict is neither SUPPORTED nor REFUTED is on the page
C15_OtherVerdictShown ==
    /\ phase = "ready"
    /\ factResult # Null
    /\ Get(factResult, Kverdict) = VNotEnoughInfo
    /\ Badge = "neutral"

\* C16: once a render has committed and the persist effect has run, the slot
\* is the serialization of the four fields as they are now, and it decodes
\* to an object of exactly these four fields with their current values
C16_SlotIsFullSnapshot ==
    phase \in {"ready", "hydrating"} =>
        /\ storage = Persist(question, answer, claim, factResult)
        /\ JSONparse(storage) =
               ParseOk(PersistedState(question, answer, claim, factResult),
                       Len(storage.v) + 1)

\* a call that began with a result on the page has started, so that the slot
\* was rewritten for a field that became null
C16_ResultClearedAtStart ==
    /\ last.ev = "fStart"
    /\ last.before # Null
    /\ question # EmptyStr
    /\ phase = "ready"

\* C17: when a call has failed its busy flag is clear, its button can be
\* clicked again and its error slot holds the message of that failure alone;
\* when a call has started its error slot is empty; when a call has
\* succeeded its error slot is empty
C17_ErrorReplacedOnRetry ==
    /\ last.ev = "qFail" =>
           /\ ~loading
           /\ ~QueryButtonDisabled
           /\ ENABLED ClickQuery
           /\ status = Str(QueryPrefix \o QueryTried[last.out].message)
    /\ last.ev \in {"qStart", "qOk"} => status = EmptyStr
    /\ last.ev = "fFail" =>
           /\ ~factLoading
           /\ ~FactButtonDisabled
           /\ ENABLED ClickFactCheck
           /\ factError = Str(FactPrefix \o FactTried[last.out].message)
    /\ last.ev \in {"fStart", "fOk"} => factError = Null

\* a handleQuery call has failed on a page that shows the error of a
\* handleFactCheck call, and can be tried again
C17_FailedAndRetryEnabled ==
    /\ last.ev = "qFail"
    /\ status # EmptyStr
    /\ factError # Null
    /\ ~QueryButtonDisabled

\* C18: once the page has mounted on a slot holding a stored session and the
\* hydrated values have been committed, the page is up, the slot holds that
\* session again and the four fields are the ones it was written from
C18_MountKeepsSession ==
    (last.ev = "hydrate" /\ last.before \in StoredSessions) =>
        /\ phase = "ready"
        /\ storage = last.before
        /\ Persist(question, answer, claim, factResult) = last.before

\* the page has hydrated from a stored session that has a result
C18_HydratedWithResult ==
    /\ last.ev = "hydrate"
    /\ last.before \in StoredSessions
    /\ factResult = StoredSupported
    /\ answer # EmptyStr

\* C19, as the specification states it: a busy flag is set exactly while a
\* request of its handler is suspended, overlapping calls included
C19_BusyIffInflight ==
    /\ loading <=> qInflight # << >>
    /\ factLoading <=> fInflight # << >>

\* C19: a busy flag is clear whenever no request of its handler is suspended
\* and set when a call has just started, and it is clear when a call has just
\* settled, whether or not an overlapping call is still suspended
C19_BusyClearedByAnySettlement ==
    /\ qInflight = << >> => ~loading
    /\ fInflight = << >> => ~factLoading
    /\ last.ev = "qStart" => loading /\ qInflight # << >>
    /\ last.ev = "fStart" => factLoading /\ fInflight # << >>
    /\ QueryJustSettled => ~loading
    /\ FactJustSettled => ~factLoading

\* of two overlapping handleQuery calls one has settled and the other is
\* still suspended
C19_SettledWhileOtherSuspended ==
    /\ QueryJustSettled
    /\ qInflight # << >>
    /\ ~loading

====
